---- MODULE Spec2Model ----
(***************************************************************************)
(* Model of the notebook src/iteration.ipynb ("Nipype Concepts:            *)
(* Iteration").  The notebook has two independent parts:                   *)
(*                                                                         *)
(*   - the smoothflow workflow (cells 3-10): four nodes are connected,     *)
(*     the workflow is run once per file in a for loop, then               *)
(*     inputs.iterables is set and the workflow is run once more; the      *)
(*     last cell lists the working directories that the run created;       *)
(*   - the MapNode demonstrations (cells 11-17): a Function interface is   *)
(*     wrapped in a MapNode, list inputs are assigned and run() prints     *)
(*     the list of outputs.                                                *)
(*                                                                         *)
(* The workflow engine itself (nipype) is imported by the notebook and is  *)
(* not part of the repository.  Its behaviour is modelled only as far as   *)
(* the notebook's prose and recorded cell outputs state it.                *)
(***************************************************************************)
EXTENDS Integers, Sequences, FiniteSets, TLC

VARIABLES
    wpc,        \* next cell of the workflow part
    raw_files,  \* the list literal of cell 6, before map(abspath, ...)
    files,      \* files after map(abspath, files)
    edges,      \* edges of wf, added by wf.connect
    mri_file,   \* inputs.inputs.mri_file (a path, or <<>> while unset)
    iterables,  \* inputs.iterables: <<>> or <<field, values>>
    loop_k,     \* number of completed iterations of the for loop of cell 7
    plan,       \* node instances of the graph executed by the last wf.run
    dirs,       \* working directories present on disk
    listing,    \* output of "ls smoothflow/_mri_file*/smooth/*.nii.gz"
    mpc,        \* position inside a MapNode cell
    interface,  \* the Function interface wrapped by the MapNode
    iterfield,  \* the iterfield list given to the MapNode constructor
    minputs,    \* the MapNode's inputs
    subidx,     \* number of element-wise executions already done
    subouts,    \* outputs of the element-wise executions, in order
    f_out       \* the printed outputs list of the last run()

wfvars == <<wpc, raw_files, files, edges, mri_file, iterables, loop_k, plan,
            dirs, listing>>
mnvars == <<mpc, interface, iterfield, minputs, subidx, subouts, f_out>>
vars == <<wpc, raw_files, files, edges, mri_file, iterables, loop_k, plan,
          dirs, listing, mpc, interface, iterfield, minputs, subidx, subouts,
          f_out>>

---------------------------------------------------------------------------
(* Bounds of the model *)

MaxPathLen == 4     \* longest relative path in the file list
MaxFiles == 2       \* longest file list
MaxLen == 3         \* longest list assigned to a MapNode input
MaxVal == 3         \* largest number assigned to a MapNode input

---------------------------------------------------------------------------
(* Helpers *)

Range(s) == {s[i] : i \in 1..Len(s)}

BoundedSeq(S, n) == UNION {[1..k -> S] : k \in 0..n}

NoDup(s) == \A i, j \in 1..Len(s) : i # j => s[i] # s[j]

---------------------------------------------------------------------------
(* Paths.  A path is a sequence of one-character strings. *)

PathChars == {"/", ".", "a"}

\* A path component made only of one or two dots ("." or "..")
HasDotComponent(p) ==
    \E i, j \in 1..Len(p) :
        /\ i <= j
        /\ j - i <= 1
        /\ (i = 1 \/ p[i-1] = "/")
        /\ (j = Len(p) \/ p[j+1] = "/")
        /\ \A k \in i..j : p[k] = "."

\* Relative paths that normpath leaves unchanged, like "data/T1-a.nii.gz"
NormalRelPath(p) ==
    /\ Len(p) >= 1
    /\ p[1] # "/"
    /\ p[Len(p)] # "/"
    /\ \A i \in 1..(Len(p) - 1) : ~(p[i] = "/" /\ p[i+1] = "/")
    /\ ~HasDotComponent(p)

RelPaths == {p \in BoundedSeq(PathChars, MaxPathLen) : NormalRelPath(p)}

\* The directory the notebook is run from
Cwd == <<"/", "a">>

\* os.path.abspath on a normal relative path: join with the working directory
abspath(p) == Cwd \o <<"/">> \o p

\* map(abspath, files)
RECURSIVE MapAbspath(_)
MapAbspath(fs) ==
    IF fs = <<>> THEN <<>>
    ELSE <<abspath(Head(fs))>> \o MapAbspath(Tail(fs))

\* The directory name of an iterable value, as the listing of cell 10 shows
\* it: every path separator of the value appears as two dots, every other
\* character as itself
RECURSIVE PathStr(_)
PathStr(v) ==
    IF v = <<>> THEN <<>>
    ELSE (IF Head(v) = "/" THEN <<".", ".">> ELSE <<Head(v)>>)
         \o PathStr(Tail(v))

---------------------------------------------------------------------------
(* The smoothflow workflow *)

\* wf.connect(src, out_field, dst, in_field)
connect(E, src, out, dst, in) == E \cup {<<src, out, dst, in>>}

WfNodes(E) == {e[1] : e \in E} \cup {e[3] : e \in E}

Succ(E, S) == S \cup {e[3] : e \in {d \in E : d[1] \in S}}

RECURSIVE ReachFrom(_, _)
ReachFrom(E, S) ==
    IF Succ(E, S) = S THEN S ELSE ReachFrom(E, Succ(E, S))

\* "everything in the graph that is dependent on a Node with iterables will
\* be duplicated for each value in the iterables list"
Dependent(E) == ReachFrom(E, {"inputs"})

\* The node instances wf.run executes.  idx = 0: the node is not duplicated.
ExpandedGraph(E, its) ==
    {[node |-> n, idx |-> 0] :
        n \in IF its = <<>> THEN WfNodes(E) ELSE WfNodes(E) \ Dependent(E)}
    \cup
    (IF its = <<>> THEN {}
     ELSE {[node |-> n, idx |-> k] :
              n \in WfNodes(E) \cap Dependent(E), k \in 1..Len(its[2])})

\* The directory between the workflow directory and the node directory:
\* "the directory names just get set with the iterable value"
ParamDir(its, k) ==
    IF k = 0 THEN <<>>
    ELSE <<"_", its[1], "_">> \o PathStr(its[2][k])

\* The working directory of a node instance: smoothflow/<ParamDir>/<node>
OutputDir(its, inst) ==
    [base |-> "smoothflow", param |-> ParamDir(its, inst.idx),
     node |-> inst.node]

\* wf.run(): the directories of all executed instances exist afterwards
RunDirs(E, its) == {OutputDir(its, i) : i \in ExpandedGraph(E, its)}

InitWorkflow ==
    /\ wpc = "cell3"
    /\ raw_files \in {fs \in BoundedSeq(RelPaths, MaxFiles) : Len(fs) >= 1}
    /\ files = raw_files
    /\ edges = {}
    /\ mri_file = <<>>
    /\ iterables = <<>>
    /\ loop_k = 0
    /\ plan = {}
    /\ dirs = {}
    /\ listing = {}

\* cell 3: the nodes, the workflow and the two connections into mask
Cell3 ==
    /\ wpc = "cell3"
    /\ edges' = connect(connect(edges,
                    "skullstrip", "mask_file", "mask", "mask_file"),
                    "smooth", "out_file", "mask", "in_file")
    /\ wpc' = "cell4"
    /\ UNCHANGED <<raw_files, files, mri_file, iterables, loop_k, plan, dirs,
                   listing>>

\* cell 4: the IdentityInterface node feeds skullstrip and smooth
Cell4 ==
    /\ wpc = "cell4"
    /\ edges' = connect(connect(edges,
                    "inputs", "mri_file", "skullstrip", "in_file"),
                    "inputs", "mri_file", "smooth", "in_file")
    /\ wpc' = "cell6"
    /\ UNCHANGED <<raw_files, files, mri_file, iterables, loop_k, plan, dirs,
                   listing>>

\* cell 6: files = map(abspath, files)
Cell6 ==
    /\ wpc = "cell6"
    /\ files' = MapAbspath(raw_files)
    /\ wpc' = "cell7"
    /\ UNCHANGED <<raw_files, edges, mri_file, iterables, loop_k, plan, dirs,
                   listing>>

\* cell 7, one iteration: inputs.inputs.mri_file = f; wf.run()
Cell7Loop ==
    /\ wpc = "cell7"
    /\ loop_k < Len(files)
    /\ loop_k' = loop_k + 1
    /\ mri_file' = files[loop_k + 1]
    /\ plan' = ExpandedGraph(edges, iterables)
    /\ dirs' = dirs \cup RunDirs(edges, iterables)
    /\ UNCHANGED <<wpc, raw_files, files, edges, iterables, listing>>

\* cell 7, end of the for loop
Cell7End ==
    /\ wpc = "cell7"
    /\ loop_k = Len(files)
    /\ wpc' = "cell8"
    /\ UNCHANGED <<raw_files, files, edges, mri_file, iterables, loop_k, plan,
                   dirs, listing>>

\* cell 8: inputs.iterables = ("mri_file", files)
Cell8 ==
    /\ wpc = "cell8"
    /\ iterables' = <<"mri_file", files>>
    /\ wpc' = "cell9"
    /\ UNCHANGED <<raw_files, files, edges, mri_file, loop_k, plan, dirs,
                   listing>>

\* cell 9: wf.run(plugin="MultiProc", plugin_args={"n_proc": 2})
Cell9 ==
    /\ wpc = "cell9"
    /\ plan' = ExpandedGraph(edges, iterables)
    /\ dirs' = dirs \cup RunDirs(edges, iterables)
    /\ wpc' = "cell10"
    /\ UNCHANGED <<raw_files, files, edges, mri_file, iterables, loop_k,
                   listing>>

\* cell 10: ls smoothflow/_mri_file*/smooth/*.nii.gz
Cell10 ==
    /\ wpc = "cell10"
    /\ listing' = {d \in dirs : /\ d.node = "smooth"
                                /\ Len(d.param) >= 3
                                /\ SubSeq(d.param, 1, 3)
                                       = <<"_", "mri_file", "_">>}
    /\ wpc' = "end"
    /\ UNCHANGED <<raw_files, files, edges, mri_file, iterables, loop_k, plan,
                   dirs>>

---------------------------------------------------------------------------
(* The MapNode demonstrations *)

\* range(n) of Python: [0, 1, ..., n-1]
range(n) == [i \in 1..n |-> i - 1]

\* the argument of range in cells 14, 16 and 17
RangeArg == 4

\* x ** y on non-negative integers (0 ** 0 is 1)
RECURSIVE Pow(_, _)
Pow(x, y) == IF y = 0 THEN 1 ELSE x * Pow(x, y - 1)

\* def square_func(x): return x ** 2
square_func(x) == Pow(x, 2)

\* power_func with * written for **
power_func_times(x, y) == x * y

\* def power_func(x, y): return x ** y
power_func(x, y) == Pow(x, y)

\* Function(["x"], ["f_x"], square_func), Function(["x", "y"], ["f_xy"], ...)
InputNames(itf) == IF itf = "square" THEN {"x"} ELSE {"x", "y"}

\* interface.run(**inputs).outputs
RunInterface(itf, in) ==
    IF itf = "square" THEN square_func(in["x"])
    ELSE power_func(in["x"], in["y"])

Numbers == 0..MaxVal

\* the lists a cell may assign: bounded lists, and range(4) as in the notebook
Lists == BoundedSeq(Numbers, MaxLen) \cup {range(RangeArg)}

\* iterfield lists: the interface's input names, none twice, at least one
IterfieldLists(itf) ==
    {fl \in BoundedSeq(InputNames(itf), 2) : Len(fl) >= 1 /\ NoDup(fl)}

\* Input assignments of a cell: a list for every iterfield, "as long as
\* they're the same length", and a number for every other input
InputChoices(itf, fl) ==
    LET D(f) == IF f \in Range(fl) THEN Lists ELSE Numbers
        all == IF itf = "square"
               THEN {[x |-> a] : a \in D("x")}
               ELSE {[x |-> a, y |-> b] : a \in D("x"), b \in D("y")}
    IN {in \in all : \A f, g \in Range(fl) : Len(in[f]) = Len(in[g])}

\* number of element-wise executions: the length of the iterfield lists
NItems == Len(minputs[iterfield[1]])

\* inputs of the i-th element-wise execution: the i-th element of every
\* iterfield ("the values in each list will be paired") and every other
\* input as it is ("not every input needs to be an iterfield")
SubInputs(in, fl, i) ==
    [f \in DOMAIN in |-> IF f \in Range(fl) THEN in[f][i] ELSE in[f]]

InitMapNode ==
    /\ mpc = "idle"
    /\ interface = "square"
    /\ iterfield = <<"x">>
    /\ minputs = [f \in {"x"} |-> <<>>]
    /\ subidx = 0
    /\ subouts = <<>>
    /\ f_out = <<>>

\* cells 13-14, 16, 17 up to the call of run(): construct the MapNode and
\* assign its inputs
CellMapNode ==
    /\ mpc = "idle"
    /\ \E itf \in {"square", "power"} :
         \E fl \in IterfieldLists(itf) :
           \E in \in InputChoices(itf, fl) :
              /\ interface' = itf
              /\ iterfield' = fl
              /\ minputs' = in
    /\ subidx' = 0
    /\ subouts' = <<>>
    /\ mpc' = "running"
    /\ UNCHANGED f_out

\* run(): one element-wise execution of the wrapped interface
RunSub ==
    /\ mpc = "running"
    /\ subidx < NItems
    /\ subouts' = Append(subouts,
                    RunInterface(interface,
                                 SubInputs(minputs, iterfield, subidx + 1)))
    /\ subidx' = subidx + 1
    /\ UNCHANGED <<mpc, interface, iterfield, minputs, f_out>>

\* run(): "ultimately returning a list of outputs"; print ....outputs.f_xy
RunCollect ==
    /\ mpc = "running"
    /\ subidx = NItems
    /\ f_out' = subouts
    /\ mpc' = "done"
    /\ UNCHANGED <<interface, iterfield, minputs, subidx, subouts>>

\* the next MapNode cell starts: its constructor call makes a fresh node
NextCell ==
    /\ mpc = "done"
    /\ mpc' = "idle"
    /\ interface' = "square"
    /\ iterfield' = <<"x">>
    /\ minputs' = [f \in {"x"} |-> <<>>]
    /\ subidx' = 0
    /\ subouts' = <<>>
    /\ f_out' = <<>>

---------------------------------------------------------------------------
(* Specifications *)

\* The workflow part with an arbitrary bounded file list; no MapNode cell
InitWf ==
    /\ InitWorkflow
    /\ InitMapNode

NextWf ==
    \/ Cell3 /\ UNCHANGED mnvars
    \/ Cell4 /\ UNCHANGED mnvars
    \/ Cell6 /\ UNCHANGED mnvars
    \/ Cell7Loop /\ UNCHANGED mnvars
    \/ Cell7End /\ UNCHANGED mnvars
    \/ Cell8 /\ UNCHANGED mnvars
    \/ Cell9 /\ UNCHANGED mnvars
    \/ Cell10 /\ UNCHANGED mnvars

SpecWf == InitWf /\ [][NextWf]_vars

\* The MapNode part, after the workflow part has ended
InitMn ==
    /\ wpc = "end"
    /\ raw_files = <<>>
    /\ files = <<>>
    /\ edges = {}
    /\ mri_file = <<>>
    /\ iterables = <<>>
    /\ loop_k = 0
    /\ plan = {}
    /\ dirs = {}
    /\ listing = {}
    /\ InitMapNode

NextMn ==
    \/ CellMapNode /\ UNCHANGED wfvars
    \/ RunSub /\ UNCHANGED wfvars
    \/ RunCollect /\ UNCHANGED wfvars
    \/ NextCell /\ UNCHANGED wfvars

SpecMn == InitMn /\ [][NextMn]_vars

---------------------------------------------------------------------------
(* Claims *)

\* C1 (as stated): after the run with iterables over N distinct candidate
\* values, the sink node mask has exactly N instances and their directory
\* keys are pairwise distinct, also when two values have the same
\* directory-name token.
C1_SinkKeysDistinct ==
    (wpc \in {"cell10", "end"} /\ NoDup(files)) =>
        LET sink == {i \in plan : i.node = "mask"}
        IN /\ Cardinality(sink) = Len(files)
           /\ \A i, j \in sink :
                 i # j => OutputDir(iterables, i) # OutputDir(iterables, j)

\* C2: when run() of a MapNode has returned, the output list has the common
\* length K of the iterfield lists and its i-th element is the interface
\* applied to the i-th element of every iterfield and the unchanged value of
\* every other input (element-wise pairing, no product); power over
\* x = y = [0,1,2,3] gives [1,1,4,27], and over x = [0,1,2,3] with y = 3
\* gives [0,1,8,27].
C2_MapNodeElementwise ==
    mpc = "done" =>
        /\ \A f \in Range(iterfield) : Len(f_out) = Len(minputs[f])
        /\ \A i \in 1..Len(f_out) :
              f_out[i] = RunInterface(interface,
                            [f \in DOMAIN minputs |->
                                IF f \in Range(iterfield)
                                THEN minputs[f][i] ELSE minputs[f]])
        /\ (/\ interface = "power"
            /\ Range(iterfield) = {"x", "y"}
            /\ minputs["x"] = <<0, 1, 2, 3>>
            /\ minputs["y"] = <<0, 1, 2, 3>>) => f_out = <<1, 1, 4, 27>>
        /\ (/\ interface = "power"
            /\ iterfield = <<"x">>
            /\ minputs["x"] = <<0, 1, 2, 3>>
            /\ minputs["y"] = 3) => f_out = <<0, 1, 8, 27>>

\* C2 witness: the run of cell 17 has printed its result
C2_Witness ==
    /\ mpc = "done"
    /\ interface = "power"
    /\ iterfield = <<"x">>
    /\ minputs["x"] = range(RangeArg)
    /\ minputs["y"] = 3
    /\ f_out = <<0, 1, 8, 27>>

====
